---- MODULE Spec2Model ----
(***************************************************************************)
(* UNECM - decoder for the ECM (Error Code Modeler) format, src/unecm.c.   *)
(*                                                                         *)
(* Bytes are integers 0..255.  C arrays are 1-based TLA+ sequences: the C  *)
(* element a[i] is a[i + 1] here.  A 32-bit unsigned value (ecc_uint32) is *)
(* the tuple of its four bytes, least significant first.  The 64-bit       *)
(* signed off_t variable num is the set of the positions of its one bits   *)
(* (a subset of 0..63, position 63 being the sign bit), so that shifts,    *)
(* ORs and two's complement wrap-around are computed exactly.              *)
(***************************************************************************)
EXTENDS Integers, Sequences, FiniteSets, TLC

(***************************************************************************)
(* Bit-level helpers                                                       *)
(***************************************************************************)
RECURSIVE Pow2(_)
Pow2(n) == IF n = 0 THEN 1 ELSE 2 * Pow2(n - 1)

\* the positions of the one bits of a natural number below 2^31
BitsOf(n) == {b \in 0..30 : (n \div Pow2(b)) % 2 = 1}

\* the value of a set of bit positions, all below 31
RECURSIVE ValueOf(_)
ValueOf(S) ==
  IF S = {} THEN 0
  ELSE LET b == CHOOSE x \in S : TRUE IN Pow2(b) + ValueOf(S \ {b})

\* C's a ^ b on sets of bit positions
SetXor(A, B) == (A \ B) \cup (B \ A)

\* C's a ^ b on naturals, bit by bit
RECURSIVE XorNat(_, _)
XorNat(a, b) ==
  IF a = 0 THEN b
  ELSE IF b = 0 THEN a
  ELSE ((a + b) % 2) + 2 * XorNat(a \div 2, b \div 2)

\* the tuple <<e(lo), ..., e(hi)>> as an explicit sequence
RECURSIVE Tabulate(_, _, _)
Tabulate(e(_), lo, hi) ==
  IF lo > hi THEN <<>>
  ELSE IF lo = hi THEN <<e(lo)>>
  ELSE LET mid == (lo + hi) \div 2
       IN Tabulate(e, lo, mid) \o Tabulate(e, mid + 1, hi)

\* a ^ b for bytes, tabulated: Xor8Tab[a + 1][b + 1]
Xor8Row(a) == LET e(b) == XorNat(a, b) IN Tabulate(e, 0, 255)
Xor8Tab == Tabulate(Xor8Row, 0, 255)
Xor8(a, b) == Xor8Tab[a + 1][b + 1]

\* the four bytes, least significant first, of a 32-bit value given as bit set
Bytes32(S) ==
  LET byte(k) == ValueOf({b - 8 * k : b \in {x \in S : x \div 8 = k}})
  IN <<byte(0), byte(1), byte(2), byte(3)>>

Xor32(x, y) == <<Xor8(x[1], y[1]), Xor8(x[2], y[2]), Xor8(x[3], y[3]), Xor8(x[4], y[4])>>

Zero32 == <<0, 0, 0, 0>>

(***************************************************************************)
(* Lookup tables, eccedc_init.  Table entry t[i] of the C code is t[i + 1].*)
(***************************************************************************)
\* j = (i << 1) ^ (i & 0x80 ? 0x11D : 0), stored into an ecc_uint8
ecc_f_entry(i) == XorNat(2 * i, IF i >= 128 THEN 285 ELSE 0) % 256
ecc_f_lut == Tabulate(ecc_f_entry, 0, 255)

\* ecc_b_lut[i ^ j] = i
ecc_b_entry(x) == CHOOSE i \in 0..255 : XorNat(i, ecc_f_entry(i)) = x
ecc_b_lut == Tabulate(ecc_b_entry, 0, 255)

\* 0xD8018001
EdcPoly == {0, 15, 16, 27, 28, 30, 31}

\* edc = (edc >> 1) ^ (edc & 1 ? 0xD8018001 : 0), j times
RECURSIVE EdcFold(_, _)
EdcFold(S, j) ==
  IF j = 0 THEN S
  ELSE EdcFold(SetXor({b - 1 : b \in S \ {0}}, IF 0 \in S THEN EdcPoly ELSE {}), j - 1)

edc_entry(i) == Bytes32(EdcFold(BitsOf(i), 8))
edc_lut == Tabulate(edc_entry, 0, 255)

(***************************************************************************)
(* Checksum engine                                                         *)
(***************************************************************************)
\* one step of the loop: edc = (edc >> 8) ^ edc_lut[(edc ^ byte) & 0xFF]
EdcStep(edc, byte) == Xor32(<<edc[2], edc[3], edc[4], 0>>, edc_lut[Xor8(edc[1], byte) + 1])

\* the loop of edc_partial_computeblock over src[lo..hi] (1-based, inclusive);
\* the bytes are consumed in increasing order.  The range is split in halves
\* and the left half is evaluated before the right one is entered (the test
\* on left only fixes the evaluation order and is always true)
RECURSIVE EdcRange(_, _, _, _)
EdcRange(edc, src, lo, hi) ==
  IF lo > hi THEN edc
  ELSE IF lo = hi THEN EdcStep(edc, src[lo])
  ELSE LET mid == (lo + hi) \div 2
           left == EdcRange(edc, src, lo, mid)
       IN IF Len(left) = 4 THEN EdcRange(left, src, mid + 1, hi) ELSE left

edc_partial_computeblock(edc, src, size) == EdcRange(edc, src, 1, size)

\* the four bytes edc_computeblock stores at dest[0..3]
edc_computeblock(src, size) == edc_partial_computeblock(Zero32, src, size)

(***************************************************************************)
(* Parity engine                                                           *)
(***************************************************************************)
\* one iteration of the inner (minor) loop of ecc_computeblock on the
\* triple st = <<index, ecc_a, ecc_b>>
EccMinorStep(src, st, size, minor_inc) ==
  LET temp == src[st[1] + 1]
      next == st[1] + minor_inc
  IN <<IF next >= size THEN next - size ELSE next,
       ecc_f_lut[Xor8(st[2], temp) + 1],
       Xor8(st[3], temp)>>

\* n iterations of the inner loop.  The iterations are split in halves and
\* the first half is evaluated before the second is entered (the test on
\* first only fixes the evaluation order and is always true)
RECURSIVE EccMinorLoop(_, _, _, _, _)
EccMinorLoop(src, st, size, minor_inc, n) ==
  IF n = 0 THEN st
  ELSE IF n = 1 THEN EccMinorStep(src, st, size, minor_inc)
  ELSE LET first == EccMinorLoop(src, st, size, minor_inc, n \div 2)
       IN IF Len(first) = 3
          THEN EccMinorLoop(src, first, size, minor_inc, n - n \div 2)
          ELSE first

\* one iteration of the outer (major) loop: the bytes stored at
\* dest[major] and dest[major + major_count]
EccMajor(src, major, major_count, minor_count, major_mult, minor_inc) ==
  LET st == EccMinorLoop(src, <<(major \div 2) * major_mult + (major % 2), 0, 0>>,
                         major_count * minor_count, minor_inc, minor_count)
      ecc_a == ecc_b_lut[Xor8(ecc_f_lut[st[2] + 1], st[3]) + 1]
  IN <<ecc_a, Xor8(ecc_a, st[3])>>

\* the 2 * major_count bytes ecc_computeblock stores at dest
ecc_computeblock(src, major_count, minor_count, major_mult, minor_inc) ==
  LET pair(major) == EccMajor(src, major, major_count, minor_count, major_mult, minor_inc)
  IN CHOOSE dest \in
       {LET lower(major) == pairs[major + 1][1]
            upper(major) == pairs[major + 1][2]
        IN Tabulate(lower, 0, major_count - 1) \o Tabulate(upper, 0, major_count - 1) :
          pairs \in {Tabulate(pair, 0, major_count - 1)}} : TRUE

\* buf with the bytes at C offsets off .. off + Len(bytes) - 1 replaced
Store(buf, off, bytes) ==
  SubSeq(buf, 1, off) \o bytes \o SubSeq(buf, off + Len(bytes) + 1, Len(buf))

\* n bytes of value v (memset)
Fill(v, n) == LET e(i) == v IN Tabulate(e, 1, n)

SectorSize == 2352

\* ecc_generate: the sector with its P and Q codes filled in.  Every
\* intermediate buffer is bound as the element of a singleton set, so that it
\* is a value when the next step reads it
ecc_generate(sect, zeroaddress) ==
  CHOOSE done \in
    {IF zeroaddress THEN Store(withQ, 12, SubSeq(sect, 13, 16)) ELSE withQ :
       withQ \in
         {Store(withP, 2248, ecc_computeblock(SubSeq(withP, 13, SectorSize), 52, 43, 86, 88)) :
            withP \in
              {Store(zeroed, 2076,
                     ecc_computeblock(SubSeq(zeroed, 13, SectorSize), 86, 24, 2, 86)) :
                 zeroed \in {IF zeroaddress THEN Store(sect, 12, Fill(0, 4)) ELSE sect}}}} : TRUE

\* (variant of eccedc_generate that has the address zeroed while the parity
\* of a Mode 1 sector is computed, used to test C9)
eccedc_generate_ZeroAddress(sect, kind) ==
  CHOOSE coded \in
    {ecc_generate(withEdc, TRUE) :
       withEdc \in {Store(Store(sect, 2064, edc_computeblock(sect, 2064)),
                          2068, Fill(0, 8))}} : TRUE

\* eccedc_generate: the sector with its EDC (and ECC) fields filled in
eccedc_generate(sect, kind) ==
  CHOOSE done \in
    {CASE kind = 1 ->
            CHOOSE coded \in
              {ecc_generate(withEdc, FALSE) :
                 withEdc \in {Store(Store(s, 2064, edc_computeblock(s, 2064)),
                                    2068, Fill(0, 8))}} : TRUE
       [] kind = 2 ->
            CHOOSE coded \in
              {ecc_generate(withEdc, TRUE) :
                 withEdc \in {Store(s, 2072,
                                    edc_computeblock(SubSeq(s, 17, SectorSize), 2056))}} : TRUE
       [] kind = 3 ->
            Store(s, 2348, edc_computeblock(SubSeq(s, 17, SectorSize), 2332))
       [] OTHER -> s :
       s \in {sect}} : TRUE

(***************************************************************************)
(* The 64-bit variable num, as the set of the positions of its one bits    *)
(***************************************************************************)
Word64 == 0..63

\* num++ (two's complement: all ones becomes 0, 2^63 - 1 becomes -2^63)
NumInc(S) ==
  IF S = Word64 THEN {}
  ELSE LET z == CHOOSE b \in Word64 \ S : \A x \in Word64 \ S : b <= x
       IN {b \in S : b > z} \cup {z}

\* num-- (0 becomes -1)
NumDec(S) ==
  IF S = {} THEN Word64
  ELSE LET z == CHOOSE b \in S : \A x \in S : b <= x
       IN (S \ {z}) \cup {b \in Word64 : b < z}

\* the low 12 bits of num, as a number
NumLow(S) == ValueOf({b \in S : b < 12})

\* num > n for a non-negative num and 0 <= n < 4096
NumGt(S, n) == (\E b \in S : b >= 12) \/ NumLow(S) > n

\* num -= n for 0 <= n < 4096 and num >= n
NumSub(S, n) ==
  IF NumLow(S) >= n
  THEN {b \in S : b >= 12} \cup BitsOf(NumLow(S) - n)
  ELSE LET high == {b - 12 : b \in {x \in S : x >= 12}}
       IN {b + 12 : b \in NumDec(high)} \cup BitsOf(NumLow(S) + 4096 - n)

\* 0xFFFFFFFF
Sentinel == 0..31

\* the values ((off_t)v) << bits can take, v < 128.  The shift is undefined
\* for bits >= 64 (a build either yields 0 or shifts by bits modulo 64, as
\* the x86-64 and AArch64 shift instructions do); below 64 the bits pushed
\* beyond position 63 are lost
ShiftLeft(v, by) ==
  IF by < 64
  THEN {{b + by : b \in BitsOf(v)} \cap Word64}
  ELSE {{}, {b + (by % 64) : b \in BitsOf(v)} \cap Word64}

(***************************************************************************)
(* Sector reconstruction: the sector images built inside unecmify          *)
(***************************************************************************)
\* memset(sector, 0, sizeof(sector)); memset(sector + 1, 0xFF, 10);
BlankSector == <<0>> \o Fill(255, 10) \o Fill(0, SectorSize - 11)

\* case 1, after both reads: mode byte 1, address (3 bytes) at 0x00C, data
\* (0x800 bytes) at 0x010
Mode1Image(address, data) ==
  Store(Store(Store(BlankSector, 15, <<1>>), 12, address), 16, data)

\* (variant of Mode2Image that does not copy the subheader to 0x010, used
\* to test C10)
Mode2Image_NoMirror(payload) ==
  Store(Store(BlankSector, 15, <<2>>), 20, payload)

\* case 2 and case 3, after the read: mode byte 2, payload at 0x014, its
\* first four bytes copied to 0x010
Mode2Image(payload) ==
  Store(Store(Store(BlankSector, 15, <<2>>), 20, payload), 16, SubSeq(payload, 1, 4))

\* the number of input bytes one repetition of a sector chunk reads
UnitInput(kind) == CASE kind = 1 -> 3 + 2048 [] kind = 2 -> 2052 [] kind = 3 -> 2328

\* the bytes one repetition of a sector chunk writes
UnitOutput(kind, payload) ==
  CHOOSE written \in
    {IF kind = 1 THEN whole ELSE SubSeq(whole, 17, SectorSize) :
       whole \in {eccedc_generate(
                    IF kind = 1
                    THEN Mode1Image(SubSeq(payload, 1, 3), SubSeq(payload, 4, 2051))
                    ELSE Mode2Image(payload),
                    kind)}} : TRUE

(***************************************************************************)
(* Input files: valid ECM streams, damaged copies of them, and streams     *)
(* with hand-made chunk headers                                            *)
(***************************************************************************)
MaxReps == 2        \* sectors per sector chunk
MaxPieces == 2      \* the longest literal chunk has MaxPieces * 2352 + 1 bytes
MaxCont == 10       \* continuation bytes of a hand-made chunk header
CutWindow == 3      \* truncations this close to a unit boundary are tried,
CutStride == 997    \* and every CutStride-th one,
DenseCuts == 12 * CutWindow   \* and every one up to this length

Magic == <<69, 67, 77, 0>>
SentinelHeader == <<252, 255, 255, 255, 63>>

Min(a, b) == IF a < b THEN a ELSE b

\* payload byte i of a chunk
DataByte(seed, i) == (seed + 7 * i + i \div 256) % 256

RECURSIVE EncodeMore(_)
EncodeMore(v) ==
  IF v = 0 THEN <<>>
  ELSE IF v < 128 THEN <<v>>
  ELSE <<128 + (v % 128)>> \o EncodeMore(v \div 128)

\* the header of a chunk of the given type and true count
EncodeHeader(kind, count) ==
  LET raw == count - 1
  IN IF raw < 32 THEN <<kind + 4 * raw>>
     ELSE <<128 + kind + 4 * (raw % 32)>> \o EncodeMore(raw \div 32)

Lit(count, seed) == [type |-> 0, count |-> count, seed |-> seed]
Sec(kind, count, seed) == [type |-> kind, count |-> count, seed |-> seed]

Descs ==
  << <<>>,
     <<Lit(1, 200)>>,
     <<Lit(2, 10), Lit(3, 20)>>,
     <<Lit(33, 30)>>,
     <<Lit(SectorSize, 40)>>,
     <<Lit(SectorSize + 1, 50)>>,
     <<Lit(MaxPieces * SectorSize + 1, 60)>>,
     <<Sec(1, MaxReps, 100)>>,
     <<Sec(3, MaxReps, 110)>>,
     <<Lit(5, 120), Sec(1, 1, 130), Lit(2, 140), Sec(3, 1, 150), Sec(2, 1, 160)>> >>

NStreams == Len(Descs)

\* the input sizes of the units (literal pieces, sectors) of a chunk
RECURSIVE UnitSizes(_, _)
UnitSizes(kind, count) ==
  IF count = 0 THEN <<>>
  ELSE IF kind = 0
       THEN <<Min(count, SectorSize)>> \o UnitSizes(kind, count - Min(count, SectorSize))
       ELSE <<UnitInput(kind)>> \o UnitSizes(kind, count - 1)

RECURSIVE SumSeq(_)
SumSeq(q) == IF q = <<>> THEN 0 ELSE q[1] + SumSeq(Tail(q))

\* acc extended by the units k.. of a chunk whose payload starts at input
\* offset base; off is the payload offset of unit k
RECURSIVE AddUnits(_, _, _, _, _, _, _)
AddUnits(acc, kind, payload, sizes, k, base, off) ==
  IF k > Len(sizes) THEN acc
  ELSE CHOOSE result \in
         {AddUnits([acc EXCEPT !.expect = @ \o step[1],
                               !.edc = step[2],
                               !.ends = Append(@, <<base + off + sizes[k],
                                                    Len(acc.expect) + Len(step[1]),
                                                    step[2]>>)],
                   kind, payload, sizes, k + 1, base, off + sizes[k]) :
            step \in
              {<<written, edc_partial_computeblock(acc.edc, written, Len(written))>> :
                 written \in
                   {IF kind = 0 THEN SubSeq(payload, off + 1, off + sizes[k])
                    ELSE UnitOutput(kind, SubSeq(payload, off + 1, off + sizes[k]))}}} : TRUE

AddChunk(acc, ch) ==
  LET header == EncodeHeader(ch.type, ch.count)
      sizes == UnitSizes(ch.type, ch.count)
      byte(i) == DataByte(ch.seed, i)
      payload == Tabulate(byte, 1, SumSeq(sizes))
      base == Len(acc.bytes) + Len(header)
  IN AddUnits([acc EXCEPT !.bytes = @ \o header \o payload,
                          !.starts = Append(@, Len(acc.bytes))],
              ch.type, payload, sizes, 1, base, 0)

RECURSIVE AddChunks(_, _, _)
AddChunks(acc, desc, i) ==
  IF i > Len(desc) THEN acc
  ELSE CHOOSE result \in
         {AddChunks(next, desc, i + 1) : next \in {AddChunk(acc, desc[i])}} : TRUE

\* a valid stream: its bytes, the output it decodes to, for every unit the
\* triple <<input offset after the unit, output length after the unit,
\* checksum of the output up to there>>, the input offset of every chunk
\* header, and the offset of its sentinel
BuildStream(sid) ==
  CHOOSE stream \in
    {[bytes |-> body.bytes \o SentinelHeader \o body.edc,
      expect |-> body.expect,
      ends |-> body.ends,
      starts |-> body.starts,
      sentinel |-> Len(body.bytes),
      desc |-> Descs[sid]] :
       body \in {AddChunks([bytes |-> Magic, expect |-> <<>>, edc |-> Zero32,
                            ends |-> <<>>, starts |-> <<>>],
                           Descs[sid], 1)}} : TRUE

Valid == Tabulate(BuildStream, 1, NStreams)

\* the input offsets after the units k.. of a chunk, unit k starting at off
RECURSIVE UnitEnds(_, _, _)
UnitEnds(sizes, k, off) ==
  IF k > Len(sizes) THEN <<>>
  ELSE <<off + sizes[k]>> \o UnitEnds(sizes, k + 1, off + sizes[k])

\* the input offsets after the units of the chunks i.. of desc, the header
\* of chunk i starting at offset at, followed by the offset of the sentinel
RECURSIVE ChunkEnds(_, _, _)
ChunkEnds(desc, i, at) ==
  IF i > Len(desc) THEN <<at>>
  ELSE LET base == at + Len(EncodeHeader(desc[i].type, desc[i].count))
           sizes == UnitSizes(desc[i].type, desc[i].count)
       IN UnitEnds(sizes, 1, base) \o ChunkEnds(desc, i + 1, base + SumSeq(sizes))

\* the offsets of valid stream sid at which a unit, or the chunks, end
Boundaries(sid) == ChunkEnds(Descs[sid], 1, Len(Magic))

\* the length of valid stream sid: sentinel header and trailer follow the chunks
StreamLen(sid) ==
  Boundaries(sid)[Len(Boundaries(sid))] + Len(SentinelHeader) + Len(Zero32)

\* the truncation lengths tried for stream sid
Cuts(sid) ==
  LET near(k, e) == k - e <= CutWindow /\ e - k <= CutWindow
  IN {k \in 0..(StreamLen(sid) - 1) :
        \/ k <= DenseCuts
        \/ k % CutStride = 0
        \/ near(k, StreamLen(sid))
        \/ \E j \in 1..Len(Boundaries(sid)) : near(k, Boundaries(sid)[j])}

\* replacement values for a magic byte
MagicBytes == {0, 67, 69, 77, 255}

\* XOR masks for a trailer byte
FlipMasks(sid) == IF StreamLen(sid) <= DenseCuts THEN {1, 16, 128, 255} ELSE {255}

\* first bytes, continuation fillers and last bytes of hand-made headers
FirstBytes == {0, 1, 2, 3, 4, 124, 127, 128, 252, 253, 254, 255}
FillBytes == {128, 255}
LastBytes == {0, 3, 7, 8, 63, 127}
RawTail == <<17, 34, 51>> \o SentinelHeader \o <<0, 0, 0, 0>>

\* where an input file comes from
Origins ==
  {<<"valid", sid, 0, 0, 0>> : sid \in 1..NStreams}
  \cup UNION {{<<"cut", sid, k, 0, 0>> : k \in Cuts(sid)} : sid \in 1..NStreams}
  \cup {o \in {<<"magic", sid, i, v, 0>> : sid \in 1..NStreams, i \in 0..3, v \in MagicBytes}
          : o[4] # Magic[o[3] + 1]}
  \cup UNION {{<<"trailer", sid, i, m, 0>> : i \in 0..3, m \in FlipMasks(sid)}
              : sid \in 1..NStreams}
  \cup {<<"extra", sid, 90, 0, 0>> : sid \in 1..NStreams}
  \cup {<<"raw", c0, 0, 0, 0>> : c0 \in {x \in FirstBytes : x < 128}}
  \cup {<<"raw", c0, k, f, l>> : c0 \in {x \in FirstBytes : x >= 128},
                                 k \in 1..MaxCont, f \in FillBytes, l \in LastBytes}

\* the bytes of the input file of the given origin
InputOf(o) ==
  CHOOSE file \in
    {CASE o[1] = "valid" -> b
       [] o[1] = "cut" -> SubSeq(b, 1, o[3])
       [] o[1] = "magic" -> Store(b, o[3], <<o[4]>>)
       [] o[1] = "trailer" ->
            Store(b, Len(b) - 4 + o[3], <<Xor8(b[Len(b) - 4 + o[3] + 1], o[4])>>)
       [] o[1] = "extra" -> Append(b, o[3])
       [] o[1] = "raw" ->
            b \o <<o[2]>>
              \o (IF o[3] = 0 THEN <<>> ELSE Fill(o[4], o[3] - 1) \o <<o[5]>>)
              \o RawTail :
       b \in {IF o[1] = "raw" THEN Magic ELSE Valid[o[2]].bytes}} : TRUE

(***************************************************************************)
(* unecmify                                                                *)
(***************************************************************************)
VARIABLES
  in,               \* the bytes of the input file
  pos,              \* ftell(in)
  out,              \* the bytes written to the output file
  checkedc,         \* running checksum of the output
  sector,           \* unsigned char sector[2352]
  type, num,        \* the chunk being decoded
  c, bits,          \* locals of the header loop
  pc,               \* position in unecmify
  ret,              \* its return value, NotReturned while it runs
  err,              \* the messages written to stderr
  mycounter, mycounter_total,
  origin            \* where the input file comes from (not program state)

vars == <<in, pos, out, checkedc, sector, type, num, c, bits, pc, ret, err,
          mycounter, mycounter_total, origin>>

EOF == -1
NotReturned == -1

\* sector, type, num, c and bits are uninitialised locals; none is read
\* before it is written
Init ==
  /\ origin \in Origins
  /\ in = InputOf(origin)
  /\ pos = 0
  /\ out = <<>>
  /\ checkedc = Zero32
  /\ sector = Fill(0, SectorSize)
  /\ type = 0
  /\ num = {}
  /\ c = 0
  /\ bits = 0
  /\ pc = "start"
  /\ ret = NotReturned
  /\ err = <<>>
  /\ mycounter = 0
  /\ mycounter_total = 0

\* fgetc(in)
Getc == IF pos < Len(in) THEN in[pos + 1] ELSE EOF

\* the bytes fread(.., 1, n, in) delivers
Fread(n) == SubSeq(in, pos + 1, Min(pos + n, Len(in)))

\* what setcounter(n) prints
Progress(n) ==
  IF n \div 1048576 # mycounter \div 1048576 THEN <<"Decoding">> ELSE <<>>

\* goto corrupt, after the messages msgs
Corrupt(msgs) ==
  /\ err' = err \o msgs \o <<"Corrupt ECM file!">>
  /\ ret' = 1
  /\ pc' = "done"

\* (variant of Uneof that jumps to corrupt instead, used to test C1)
Uneof_Silent == Corrupt(<<>>)

\* goto uneof
Uneof == Corrupt(<<"Unexpected EOF!">>)

\* the test of while(num--) for num = n: the next position and num
WhileNumDec(n) ==
  IF n = {} THEN <<"header", NumDec(n)>> ELSE <<"sector", NumDec(n)>>

\* lines 240-242
Start ==
  /\ pc = "start"
  /\ mycounter' = 0
  /\ mycounter_total' = Len(in)
  /\ pc' = "magic"
  /\ UNCHANGED <<in, pos, out, checkedc, sector, type, num, c, bits, ret, err, origin>>

\* (variant of ReadMagic that reads the four bytes before it compares any,
\* used to test C3)
ReadMagic_ReadsAll ==
  /\ pc = "magic"
  /\ pos' = Min(4, Len(in))
  /\ IF SubSeq(in, 1, pos') # Magic
     THEN Corrupt(<<"Header not found!">>)
     ELSE /\ pc' = "header"
          /\ UNCHANGED <<ret, err>>
  /\ UNCHANGED <<in, out, checkedc, sector, type, num, c, bits,
                 mycounter, mycounter_total, origin>>

\* one operand of the condition of lines 243-251
ReadMagic ==
  /\ pc = "magic"
  /\ LET ch == Getc
     IN /\ pos' = IF ch = EOF THEN pos ELSE pos + 1
        /\ IF ch # Magic[pos + 1]
           THEN Corrupt(<<"Header not found!">>)
           ELSE /\ pc' = IF pos + 1 = Len(Magic) THEN "header" ELSE "magic"
                /\ UNCHANGED <<ret, err>>
  /\ UNCHANGED <<in, out, checkedc, sector, type, num, c, bits,
                 mycounter, mycounter_total, origin>>

\* lines 253-257
ReadChunkHeader ==
  /\ pc = "header"
  /\ LET ch == Getc
     IN /\ c' = ch
        /\ bits' = 5
        /\ IF ch = EOF
           THEN /\ Uneof
                /\ UNCHANGED <<pos, type, num>>
           ELSE /\ pos' = pos + 1
                /\ type' = ch % 4
                /\ num' = BitsOf((ch \div 4) % 32)
                /\ pc' = "cont"
                /\ UNCHANGED <<ret, err>>
  /\ UNCHANGED <<in, out, checkedc, sector, mycounter, mycounter_total, origin>>

\* one iteration of the loop of lines 258-263
ReadContinuation ==
  /\ pc = "cont"
  /\ c >= 128
  /\ LET ch == Getc
     IN /\ c' = ch
        /\ IF ch = EOF
           THEN /\ Uneof
                /\ UNCHANGED <<pos, num, bits>>
           ELSE /\ pos' = pos + 1
                /\ \E shifted \in ShiftLeft(ch % 128, bits) : num' = num \cup shifted
                /\ bits' = bits + 7
                /\ UNCHANGED <<pc, ret, err>>
  /\ UNCHANGED <<in, out, checkedc, sector, type, mycounter, mycounter_total, origin>>

\* (variant of DispatchChunk that takes the sentinel for one only in a
\* literal header, used to test C8)
DispatchChunk_LiteralSentinel ==
  /\ pc = "cont"
  /\ c < 128
  /\ IF num = Sentinel /\ type = 0
     THEN /\ pc' = "trailer"
          /\ UNCHANGED <<num, ret, err>>
     ELSE LET count == NumInc(num)
          IN IF 63 \in count
             THEN /\ num' = count
                  /\ Corrupt(<<>>)
             ELSE /\ IF type = 0
                     THEN /\ num' = count
                          /\ pc' = IF count = {} THEN "header" ELSE "literal"
                     ELSE /\ num' = NumDec(count)
                          /\ pc' = IF count = {} THEN "header" ELSE "sector"
                  /\ UNCHANGED <<ret, err>>
  /\ UNCHANGED <<in, pos, out, checkedc, sector, type, c, bits,
                 mycounter, mycounter_total, origin>>

\* lines 264-268 and 277: the header is complete
DispatchChunk ==
  /\ pc = "cont"
  /\ c < 128
  /\ IF num = Sentinel
     THEN /\ pc' = "trailer"
          /\ UNCHANGED <<num, ret, err>>
     ELSE LET count == NumInc(num)
          IN IF 63 \in count
             THEN /\ num' = count
                  /\ Corrupt(<<>>)
             ELSE /\ IF type = 0
                     THEN /\ num' = count
                          /\ pc' = IF count = {} THEN "header" ELSE "literal"
                     ELSE /\ num' = WhileNumDec(count)[2]
                          /\ pc' = WhileNumDec(count)[1]
                  /\ UNCHANGED <<ret, err>>
  /\ UNCHANGED <<in, pos, out, checkedc, sector, type, c, bits,
                 mycounter, mycounter_total, origin>>

\* (variant of CopyLiteral that writes what it read before it tests the
\* length read, used to test C6)
CopyLiteral_WritesShort ==
  /\ pc = "literal"
  /\ LET b == IF NumGt(num, SectorSize) THEN SectorSize ELSE NumLow(num)
         data == Fread(b)
     IN /\ sector' = Store(sector, 0, data)
        /\ pos' = pos + Len(data)
        /\ out' = out \o data
        /\ IF Len(data) # b
           THEN /\ Uneof
                /\ UNCHANGED <<checkedc, num, mycounter>>
           ELSE /\ checkedc' = edc_partial_computeblock(checkedc, sector', b)
                /\ num' = NumSub(num, b)
                /\ err' = err \o Progress(pos')
                /\ mycounter' = pos'
                /\ pc' = IF num' = {} THEN "header" ELSE "literal"
                /\ UNCHANGED ret
  /\ UNCHANGED <<in, type, c, bits, mycounter_total, origin>>

\* (variant of CopyLiteral that writes the whole buffer, used to test C7)
CopyLiteral_WritesSector ==
  /\ pc = "literal"
  /\ LET b == IF NumGt(num, SectorSize) THEN SectorSize ELSE NumLow(num)
         data == Fread(b)
     IN /\ sector' = Store(sector, 0, data)
        /\ pos' = pos + Len(data)
        /\ IF Len(data) # b
           THEN /\ Uneof
                /\ UNCHANGED <<out, checkedc, num, mycounter>>
           ELSE /\ checkedc' = edc_partial_computeblock(checkedc, sector', b)
                /\ out' = out \o sector'
                /\ num' = NumSub(num, b)
                /\ err' = err \o Progress(pos')
                /\ mycounter' = pos'
                /\ pc' = IF num' = {} THEN "header" ELSE "literal"
                /\ UNCHANGED ret
  /\ UNCHANGED <<in, type, c, bits, mycounter_total, origin>>

\* one iteration of the loop of lines 268-275
CopyLiteral ==
  /\ pc = "literal"
  /\ LET b == IF NumGt(num, SectorSize) THEN SectorSize ELSE NumLow(num)
         data == Fread(b)
     IN /\ sector' = Store(sector, 0, data)
        /\ pos' = pos + Len(data)
        /\ IF Len(data) # b
           THEN /\ Uneof
                /\ UNCHANGED <<out, checkedc, num, mycounter>>
           ELSE /\ checkedc' = edc_partial_computeblock(checkedc, sector', b)
                /\ out' = out \o SubSeq(sector', 1, b)
                /\ num' = NumSub(num, b)
                /\ err' = err \o Progress(pos')
                /\ mycounter' = pos'
                /\ pc' = IF num' = {} THEN "header" ELSE "literal"
                /\ UNCHANGED ret
  /\ UNCHANGED <<in, type, c, bits, mycounter_total, origin>>

\* the end of one iteration of the loop of lines 277-315: the bytes emitted
\* are written and checksummed, and the loop condition is tested again
EmitSector(emitted) ==
  /\ checkedc' = edc_partial_computeblock(checkedc, emitted, Len(emitted))
  /\ out' = out \o emitted
  /\ err' = err \o Progress(pos')
  /\ mycounter' = pos'
  /\ num' = WhileNumDec(num)[2]
  /\ pc' = WhileNumDec(num)[1]
  /\ UNCHANGED ret

\* lines 278-289
ReconstructMode1 ==
  /\ pc = "sector"
  /\ type = 1
  /\ LET blank == Store(BlankSector, 15, <<1>>)
         address == Fread(3)
     IN IF Len(address) # 3
        THEN /\ sector' = Store(blank, 12, address)
             /\ pos' = pos + Len(address)
             /\ Uneof
             /\ UNCHANGED <<out, checkedc, num, mycounter>>
        ELSE LET data == SubSeq(in, pos + 4, Min(pos + 3 + 2048, Len(in)))
             IN /\ pos' = pos + 3 + Len(data)
                /\ IF Len(data) # 2048
                   THEN /\ sector' = Store(Store(blank, 12, address), 16, data)
                        /\ Uneof
                        /\ UNCHANGED <<out, checkedc, num, mycounter>>
                   ELSE /\ sector' = eccedc_generate(Mode1Image(address, data), 1)
                        /\ EmitSector(sector')
  /\ UNCHANGED <<in, type, c, bits, mycounter_total, origin>>

\* lines 290-301: case 2, one read of 0x804 bytes
ReconstructMode2Form1 ==
  /\ pc = "sector"
  /\ type = 2
  /\ LET blank == Store(BlankSector, 15, <<2>>)
         payload == Fread(UnitInput(2))
     IN /\ pos' = pos + Len(payload)
        /\ IF Len(payload) # UnitInput(2)
           THEN /\ sector' = Store(blank, 20, payload)
                /\ Uneof
                /\ UNCHANGED <<out, checkedc, num, mycounter>>
           ELSE /\ sector' = eccedc_generate(Mode2Image(payload), 2)
                /\ EmitSector(SubSeq(sector', 17, SectorSize))
  /\ UNCHANGED <<in, type, c, bits, mycounter_total, origin>>

\* lines 302-313: case 3, one read of 0x918 bytes
ReconstructMode2Form2 ==
  /\ pc = "sector"
  /\ type = 3
  /\ LET blank == Store(BlankSector, 15, <<2>>)
         payload == Fread(UnitInput(3))
     IN /\ pos' = pos + Len(payload)
        /\ IF Len(payload) # UnitInput(3)
           THEN /\ sector' = Store(blank, 20, payload)
                /\ Uneof
                /\ UNCHANGED <<out, checkedc, num, mycounter>>
           ELSE /\ sector' = eccedc_generate(Mode2Image(payload), 3)
                /\ EmitSector(SubSeq(sector', 17, SectorSize))
  /\ UNCHANGED <<in, type, c, bits, mycounter_total, origin>>

\* (variant of CheckTrailer that leaves the last trailer byte out of the
\* comparison, used to test C2)
CheckTrailer_ThreeBytes ==
  /\ pc = "trailer"
  /\ LET trailer == Fread(4)
     IN /\ sector' = Store(sector, 0, trailer)
        /\ pos' = pos + Len(trailer)
        /\ IF Len(trailer) # 4
           THEN Uneof
           ELSE IF SubSeq(sector', 1, 3) # SubSeq(checkedc, 1, 3)
                THEN Corrupt(<<"Decoded", "EDC error">>)
                ELSE /\ err' = err \o <<"Decoded", "Done; file is OK">>
                     /\ ret' = 0
                     /\ pc' = "done"
  /\ UNCHANGED <<in, out, checkedc, type, num, c, bits,
                 mycounter, mycounter_total, origin>>

\* lines 318-337
CheckTrailer ==
  /\ pc = "trailer"
  /\ LET trailer == Fread(4)
     IN /\ sector' = Store(sector, 0, trailer)
        /\ pos' = pos + Len(trailer)
        /\ IF Len(trailer) # 4
           THEN Uneof
           ELSE IF SubSeq(sector', 1, 4) # checkedc
                THEN Corrupt(<<"Decoded", "EDC error">>)
                ELSE /\ err' = err \o <<"Decoded", "Done; file is OK">>
                     /\ ret' = 0
                     /\ pc' = "done"
  /\ UNCHANGED <<in, out, checkedc, type, num, c, bits,
                 mycounter, mycounter_total, origin>>

Next ==
  \/ Start
  \/ ReadMagic
  \/ ReadChunkHeader
  \/ ReadContinuation
  \/ DispatchChunk
  \/ CopyLiteral
  \/ ReconstructMode1
  \/ ReconstructMode2Form1
  \/ ReconstructMode2Form2
  \/ CheckTrailer

Spec == Init /\ [][Next]_vars

\* how unecmify ended, from what it printed and returned
Outcome ==
  IF pc # "done" THEN "Running"
  ELSE IF ret = 0 THEN "Success"
  ELSE IF \E i \in 1..Len(err) : err[i] = "Header not found!" THEN "HeaderMissing"
  ELSE IF \E i \in 1..Len(err) : err[i] = "Unexpected EOF!" THEN "UnexpectedEndOfStream"
  ELSE IF \E i \in 1..Len(err) : err[i] = "EDC error" THEN "ChecksumMismatch"
  ELSE "InvalidChunkLength"

TypeOK ==
  /\ pos \in 0..Len(in)
  /\ pc \in {"start", "magic", "header", "cont", "literal", "sector", "trailer", "done"}
  /\ Len(sector) = SectorSize
  /\ Len(checkedc) = 4
  /\ num \subseteq Word64
  /\ type \in 0..3
  /\ ret \in {NotReturned, 0, 1}

(***************************************************************************)
(* Properties                                                              *)
(***************************************************************************)
IsPrefix(a, b) == Len(a) <= Len(b) /\ SubSeq(b, 1, Len(a)) = a

\* the input is a valid stream or a damaged copy of one, namely of V
FromStream == origin[1] \in {"valid", "cut", "magic", "trailer", "extra"}
V == Valid[origin[2]]

\* the length of the longest prefix the input shares with V.bytes
Intact ==
  CASE origin[1] = "cut" -> origin[3]
    [] origin[1] = "magic" -> origin[3]
    [] origin[1] = "trailer" -> Len(V.bytes) - 4 + origin[3]
    [] OTHER -> Len(V.bytes)

\* the units of V that lie within its first k bytes
UnitsWithin(k) == {j \in 1..Len(V.ends) : V.ends[j][1] <= k}

\* the output, and its checksum, after the units of V within its first k bytes
DecodedWithin(k) ==
  IF UnitsWithin(k) = {} THEN <<>>
  ELSE SubSeq(V.expect, 1, V.ends[Cardinality(UnitsWithin(k))][2])
EdcWithin(k) ==
  IF UnitsWithin(k) = {} THEN Zero32 ELSE V.ends[Cardinality(UnitsWithin(k))][3]

Failed == pc = "done" /\ ret = 1

---------------------------------------------------------------------------
\* C1, as claimed: every prefix of a valid stream that ends before the
\* sentinel header, whatever its length, fails with UnexpectedEndOfStream.
C1_AsClaimed ==
  (origin[1] = "cut" /\ origin[3] <= V.sentinel /\ pc = "done")
    => Outcome = "UnexpectedEndOfStream"

\* C1, amended: a prefix of a valid stream that ends before the sentinel
\* header fails with UnexpectedEndOfStream when it holds the whole 4-byte
\* magic, and with HeaderMissing when it is shorter than the magic.
C1_Truncated ==
  (origin[1] = "cut" /\ origin[3] <= V.sentinel /\ pc = "done")
    => Outcome = IF origin[3] < Len(Magic) THEN "HeaderMissing"
                 ELSE "UnexpectedEndOfStream"

C1_Witness ==
  /\ origin[1] = "cut" /\ origin[3] <= V.sentinel
  /\ pc = "done" /\ Outcome = "UnexpectedEndOfStream"
  /\ type = 1 /\ out # <<>> /\ pos = Len(in)

---------------------------------------------------------------------------
\* C2: with the sentinel consumed and four more bytes in the input, unecmify
\* reads exactly these four bytes, writes nothing, and succeeds if they are
\* the little-endian checksum, computed from 0, of the whole output, and
\* fails with ChecksumMismatch if not; a valid stream with one trailer byte
\* changed fails with ChecksumMismatch after writing the valid stream's output.
C2_Trailer ==
  /\ [][(pc = "trailer" /\ pos + 4 <= Len(in))
          => /\ pos' = pos + 4
             /\ out' = out
             /\ pc' = "done"
             /\ Outcome' = IF SubSeq(in, pos + 1, pos + 4)
                              = edc_partial_computeblock(Zero32, out, Len(out))
                           THEN "Success" ELSE "ChecksumMismatch"]_vars
  /\ []((origin[1] = "trailer" /\ pc = "done")
          => Outcome = "ChecksumMismatch" /\ out = V.expect)
  /\ []((origin[1] \in {"valid", "extra"} /\ pc = "done")
          => Outcome = "Success" /\ out = V.expect /\ pos = Len(V.bytes))

C2_Witness ==
  /\ origin[1] = "trailer" /\ origin[3] = 3
  /\ pc = "done" /\ Outcome = "ChecksumMismatch" /\ Len(out) > SectorSize

---------------------------------------------------------------------------
\* the first offset at which the input does not continue the magic
MagicMatched ==
  Cardinality({i \in 1..Len(Magic) : \A j \in 1..i : j <= Len(in) /\ in[j] = Magic[j]})
BadMagic == MagicMatched < Len(Magic)

\* C3: an input that does not start with the magic (shorter inputs included)
\* fails with HeaderMissing without decoding a chunk header: no byte after
\* the first mismatching one is read, nothing is written, and the checksum
\* accumulator stays 0.
C3_HeaderMissing ==
  BadMagic =>
    /\ pc \in {"start", "magic", "done"}
    /\ pos <= Min(MagicMatched + 1, Len(in))
    /\ out = <<>>
    /\ checkedc = Zero32
    /\ pc = "done" => Outcome = "HeaderMissing" /\ pos = Min(MagicMatched + 1, Len(in))

C3_Witness ==
  /\ BadMagic /\ MagicMatched = 1 /\ Len(in) > Len(Magic)
  /\ pc = "done" /\ Outcome = "HeaderMissing" /\ pos = 2

---------------------------------------------------------------------------
\* the first chunk header of the input: it ends at the first byte from
\* offset 4 on whose bit 7 is clear
HeaderEnds == {e \in 5..Len(in) : in[e] < 128 /\ \A j \in 5..(e - 1) : in[j] >= 128}
FirstHeader == SubSeq(in, 5, CHOOSE e \in HeaderEnds : TRUE)

\* the raw count of header h as a mathematical integer (the set of the
\* positions of its one bits, of any size): bits 2..6 of the first byte,
\* then 7 bits of every further byte at positions 5, 12, 19, ...
MathRaw(h) ==
  BitsOf((h[1] \div 4) % 32)
    \cup UNION {{b + 5 + 7 * (i - 1) : b \in BitsOf(h[i + 1] % 128)} : i \in 1..(Len(h) - 1)}

\* raw + 1 >= 2^63
TooBig(raw) == (\E b \in raw : b >= 63) \/ (0..62) \subseteq raw

\* the first chunk header has just been read completely
AtFirstHeader ==
  /\ BadMagic = FALSE
  /\ HeaderEnds # {}
  /\ pc = "cont" /\ c \in 0..127
  /\ pos <= 4 + Len(FirstHeader)

\* the count the chunk loops start from
DispatchedCount == IF type = 0 THEN num ELSE NumInc(num)

\* C4, as claimed: the true count of a non-sentinel header is its raw count
\* plus one as a mathematical integer; at or above 2^63 the decoder fails with
\* InvalidChunkLength before it reads or writes any payload, and otherwise
\* the chunk is dispatched with exactly that count, which is never 0.
C4_AsClaimed ==
  [][(AtFirstHeader /\ MathRaw(FirstHeader) # Sentinel)
       => IF TooBig(MathRaw(FirstHeader))
          THEN Outcome' = "InvalidChunkLength" /\ pos' = pos /\ out' = out
          ELSE /\ pc' \in {"literal", "sector"}
               /\ DispatchedCount' = NumInc(MathRaw(FirstHeader))
               /\ DispatchedCount' # {}]_vars

---------------------------------------------------------------------------
\* C5, as claimed: a header c0 .. ck decodes to type c0 & 3 and to the raw
\* count ((c0 >> 2) & 0x1F) | (ci & 0x7F) << (5 + 7 (i - 1)), i = 1..k, whose
\* parts do not overlap, and exactly k + 1 bytes are consumed for it.
C5_AsClaimed ==
  AtFirstHeader =>
    /\ pos = 4 + Len(FirstHeader)
    /\ type = FirstHeader[1] % 4
    /\ num = MathRaw(FirstHeader)

---------------------------------------------------------------------------
\* C6: the output only ever grows, by whole units (a literal piece of at
\* most 2352 bytes, a sector of 2352 or 2336 bytes), and the step that ends
\* the decode writes nothing; when the decode of a damaged valid stream has
\* failed, the output is exactly the units that lie entirely in the intact
\* part of the input and the checksum accumulator is the checksum of exactly
\* these; a stream with a hand-made first header that is rejected as
\* InvalidChunkLength has written nothing.
C6_WholeUnits ==
  /\ [][/\ IsPrefix(out, out')
        /\ pc' = "done" => out' = out
        /\ out' # out =>
             \/ pc = "literal" /\ Len(out') - Len(out) \in 1..SectorSize
             \/ pc = "sector" /\ type = 1 /\ Len(out') - Len(out) = 2352
             \/ pc = "sector" /\ type \in {2, 3} /\ Len(out') - Len(out) = 2336]_vars
  /\ []((FromStream /\ Failed)
          => out = DecodedWithin(Intact) /\ checkedc = EdcWithin(Intact))
  /\ []((origin[1] = "raw" /\ Failed /\ Outcome = "InvalidChunkLength") => out = <<>>)

C6_Witness ==
  /\ origin[1] = "cut" /\ Failed /\ Outcome = "UnexpectedEndOfStream"
  /\ Cardinality(UnitsWithin(Intact)) = 1 /\ Len(V.ends) > 1
  /\ pos > V.ends[1][1] + 1
  /\ out = DecodedWithin(Intact) /\ out # <<>>

---------------------------------------------------------------------------
\* the payload bytes of the literal chunks of V, in input order
RECURSIVE PayloadFrom(_)
PayloadFrom(i) ==
  IF i > Len(V.desc) THEN <<>>
  ELSE LET from == V.starts[i] + Len(EncodeHeader(0, V.desc[i].count))
       IN SubSeq(in, from + 1, from + V.desc[i].count) \o PayloadFrom(i + 1)

RECURSIVE TotalCount(_)
TotalCount(desc) == IF desc = <<>> THEN 0 ELSE desc[1].count + TotalCount(Tail(desc))

LiteralOnly ==
  /\ origin[1] = "valid"
  /\ V.desc # <<>>
  /\ \A i \in 1..Len(V.desc) : V.desc[i].type = 0

\* C7: a stream of literal chunks of L payload bytes in total decodes to
\* exactly these L bytes, in input order, whatever the chunk counts (below,
\* at and above 2352); at every moment the output is a prefix of them.
C7_LiteralCopy ==
  LiteralOnly =>
    /\ IsPrefix(out, PayloadFrom(1))
    /\ pc = "done" => /\ Outcome = "Success"
                      /\ Len(out) = TotalCount(V.desc)
                      /\ out = PayloadFrom(1)

C7_Witness ==
  /\ LiteralOnly /\ pc = "done" /\ Outcome = "Success"
  /\ Len(out) > 2 * SectorSize /\ out = PayloadFrom(1)

---------------------------------------------------------------------------
\* C8: a complete header whose decoded raw count is 0xFFFFFFFF, of whatever
\* type, ends the chunk loop: the count is not incremented, nothing is
\* dispatched, read or written; from there only the trailer (at most 4
\* bytes) is read and nothing is written; and the chunk loop is left for
\* the trailer only through such a header.
C8_Sentinel ==
  /\ [][(pc = "cont" /\ c \in 0..127 /\ num = Sentinel)
          => pc' = "trailer" /\ num' = num /\ pos' = pos /\ out' = out]_vars
  /\ [][pc = "trailer" => pc' = "done" /\ out' = out /\ pos' - pos \in 0..4]_vars
  /\ [][pc' = "trailer" => pc = "cont" /\ c \in 0..127 /\ num = Sentinel]_vars
  /\ [](Outcome \in {"Success", "ChecksumMismatch"} => num = Sentinel)

C8_Witness == pc = "trailer" /\ type = 3 /\ num = Sentinel

---------------------------------------------------------------------------
\* the Reed-Solomon syndromes of a code word: the sum of its bytes and the
\* sum of its bytes weighted by descending powers of the generator 2
RECURSIVE Syndromes(_, _, _, _)
Syndromes(word, i, s0, s1) ==
  IF i > Len(word) THEN <<s0, s1>>
  ELSE LET t0 == Xor8(s0, word[i])
           t1 == Xor8(ecc_f_lut[s1 + 1], word[i])
       IN IF t0 \in 0..255 /\ t1 \in 0..255
          THEN Syndromes(word, i + 1, t0, t1)
          ELSE <<t0, t1>>

\* the P code word of column m and the Q code word of diagonal m of the
\* 2340 bytes r that follow the sync pattern of a sector
PWord(r, m) == LET e(j) == r[m + 86 * j + 1] IN Tabulate(e, 0, 25)
QWord(r, m) ==
  LET e(j) == r[2 * ((44 * j + 43 * (m \div 2)) % 1118) + (m % 2) + 1]
  IN Tabulate(e, 0, 42) \o <<r[2236 + m + 1], r[2236 + 52 + m + 1]>>

ParityHolds(r) ==
  /\ \A m \in 0..85 : Syndromes(PWord(r, m), 1, 0, 0) = <<0, 0>>
  /\ \A m \in 0..51 : Syndromes(QWord(r, m), 1, 0, 0) = <<0, 0>>

\* the sector s restates the 3 + 2048 input bytes p as a Mode 1 sector
IsMode1Sector(s, p) ==
  /\ Len(s) = 2352
  /\ SubSeq(s, 1, 12) = <<0, 255, 255, 255, 255, 255, 255, 255, 255, 255, 255, 0>>
  /\ SubSeq(s, 13, 15) = SubSeq(p, 1, 3)
  /\ s[16] = 1
  /\ SubSeq(s, 17, 2064) = SubSeq(p, 4, 2051)
  /\ SubSeq(s, 2065, 2068) = edc_partial_computeblock(Zero32, s, 2064)
  /\ SubSeq(s, 2069, 2076) = <<0, 0, 0, 0, 0, 0, 0, 0>>
  /\ SubSeq(s, 2077, 2248) = ecc_computeblock(SubSeq(s, 13, 2352), 86, 24, 2, 86)
  /\ SubSeq(s, 2249, 2352) = ecc_computeblock(SubSeq(s, 13, 2352), 52, 43, 86, 88)
  /\ ParityHolds(SubSeq(s, 13, 2352))

\* C9: a repetition of a Mode 1 chunk that completes has consumed 3 + 2048
\* input bytes and appended one 2352-byte sector to the output: sync
\* pattern, the 3 address bytes, mode 1, the 2048 data bytes, the checksum
\* of bytes [0, 0x810), 8 zero bytes, and the P and Q parity of bytes
\* [0xC, 0x930) as emitted (address in place); the running checksum has
\* advanced over these 2352 bytes.
C9_Mode1 ==
  [][(pc = "sector" /\ type = 1 /\ pc' # "done")
       => /\ pos' = pos + 3 + 2048
          /\ Len(out') = Len(out) + 2352
          /\ IsPrefix(out, out')
          /\ IsMode1Sector(SubSeq(out', Len(out) + 1, Len(out')),
                           SubSeq(in, pos + 1, pos'))
          /\ checkedc' = EdcRange(checkedc, out', Len(out) + 1, Len(out'))]_vars

C9_Witness ==
  /\ type = 1 /\ pc = "sector" /\ Len(out) = 2352
  /\ SubSeq(out, 13, 15) # <<0, 0, 0>>

---------------------------------------------------------------------------
\* what a completed repetition of a Mode 2 chunk has done, reading n bytes:
\* the n input bytes p follow a copy of their first four in the 2336 bytes
\* appended, the checksum of what precedes it fills the rest for Form 2
IsMode2Output(s, p, form) ==
  /\ Len(s) = 2336
  /\ SubSeq(s, 1, 4) = SubSeq(p, 1, 4)
  /\ SubSeq(s, 5, 4 + Len(p)) = p
  /\ form = 3 => SubSeq(s, 2333, 2336) = edc_partial_computeblock(Zero32, s, 2332)
  /\ form = 2 => SubSeq(s, 2057, 2060) = edc_partial_computeblock(Zero32, s, 2056)

Mode2Step(n) ==
  /\ pos' = pos + n
  /\ Len(out') = Len(out) + 2336
  /\ IsPrefix(out, out')
  /\ IsMode2Output(SubSeq(out', Len(out) + 1, Len(out')), SubSeq(in, pos + 1, pos'), type)
  /\ checkedc' = EdcRange(checkedc, out', Len(out) + 1, Len(out'))

\* C10, as claimed: a repetition of a Mode 2 Form 2 chunk reads a 4-byte
\* subheader and then 2328 data bytes.
C10_AsClaimed ==
  [][(pc = "sector" /\ type = 3 /\ pc' # "done") => pos' = pos + 4 + 2328]_vars

\* C10, amended: a repetition of a Mode 2 Form 2 chunk reads 2328 bytes, a
\* 4-byte subheader and 2324 data bytes (Form 1: 4 + 2048), and appends 2336
\* bytes: the subheader twice, the data, and for Form 2 the checksum of the
\* 2332 bytes before it and no parity; the running checksum advances over
\* exactly these 2336 bytes.
C10_Mode2 ==
  /\ [][(pc = "sector" /\ type = 3 /\ pc' # "done") => Mode2Step(4 + 2324)]_vars
  /\ [][(pc = "sector" /\ type = 2 /\ pc' # "done") => Mode2Step(4 + 2048)]_vars

C10_Witness ==
  /\ type = 3 /\ pc = "sector" /\ Len(out) = 2336
  /\ SubSeq(out, 1, 4) # <<0, 0, 0, 0>>

====
